---- MODULE Spec2Model ----
(***************************************************************************)
(* A model of the recursive directory walkers of fs-hospitality:           *)
(* readdirRecursivelySync (one atomic call) and readdirRecursively (one     *)
(* task per directory, each suspended on its fs.readdir until the event    *)
(* loop delivers the listing).                                              *)
(***************************************************************************)
EXTENDS Integers, Sequences, FiniteSets, TLC

\* ---------------------------------------------------------------- bounds
\* The largest number of entries below the walk root.
MaxEntries == 3

\* ------------------------------------------------------- paths and names
\* path.sep
Sep == "/"

\* The directory the walk is called on (dirPath of the top-level call).
RootPath == <<Sep, "t">>

\* Base names the file system may hold: strings as sequences of characters.
Names == {<<"a">>, <<"B">>}

\* path.join(_prefixDirName, dirent.name): an empty prefix is dropped.
PathJoin(prefix, name) ==
  IF prefix = <<>> THEN name ELSE prefix \o <<Sep>> \o name

\* path.resolve(dirPath, dirent.name), dirPath being absolute.
PathResolve(dirPath, name) == dirPath \o <<Sep>> \o name

\* ----------------------------------------------------------- file system
\* An entry of the tree: its parent (0 is the walk root), its base name and
\* the type its directory entry carries. What a link points to is no part of
\* the tree: fs.readdir reports the type of the entry itself, and neither
\* walk stats an entry or reads through one.
EntryTypes == {"file", "dir", "link"}

Entry(p, nm, ty) == [parent |-> p, name |-> nm, type |-> ty]

\* Entry id of tree t and the directories above it, the root excluded.
RECURSIVE Lineage(_, _)
Lineage(t, id) == IF id = 0 THEN {} ELSE {id} \cup Lineage(t, t[id].parent)

\* The entries a tree t can be extended by. Entries are numbered in
\* depth-first order, so the parent is the root, the last entry or a
\* directory above it; it is a real directory; no sibling has the same name.
Extensions(t) ==
  {e \in {Entry(p, nm, ty) : p \in {0} \cup Lineage(t, Len(t)),
                             nm \in Names, ty \in EntryTypes} :
     /\ e.parent = 0 \/ t[e.parent].type = "dir"
     /\ \A j \in 1..Len(t) : t[j].parent = e.parent => t[j].name # e.name}

RECURSIVE TreesOfSize(_)
TreesOfSize(n) ==
  IF n = 0 THEN {<<>>}
  ELSE UNION {{Append(t, e) : e \in Extensions(t)} : t \in TreesOfSize(n - 1)}

\* Every tree of at most MaxEntries entries. The entries of one directory are
\* listed in the order of their indices.
Trees == UNION {TreesOfSize(n) : n \in 0..MaxEntries}

\* The absolute path of entry id of tree t (0: the walk root).
RECURSIVE AbsPath(_, _)
AbsPath(t, id) ==
  IF id = 0 THEN RootPath
  ELSE PathResolve(AbsPath(t, t[id].parent), t[id].name)

\* The entries of t, the root included, that are real directories.
DirIds(t) == {0} \cup {i \in 1..Len(t) : t[i].type = "dir"}

\* The indices of a set of naturals in increasing order.
RECURSIVE SortedSeq(_)
SortedSeq(S) ==
  IF S = {} THEN <<>>
  ELSE LET m == CHOOSE x \in S : \A y \in S : x <= y
       IN <<m>> \o SortedSeq(S \ {m})

ChildIds(t, id) == SortedSeq({i \in 1..Len(t) : t[i].parent = id})

\* ---------------------------------------------------------------- errors
NoError == [kind |-> "none", arg |-> <<>>]

\* The error codes fs.readdir fails with.
ReaddirErrors == {"ENOENT", "ENOTDIR", "EACCES"}

FsError(code, dirPath) == [kind |-> code, arg |-> dirPath]
SyntaxError(source) == [kind |-> "SyntaxError", arg |-> source]

\* The entry a path that names entry id stands for once the operating system
\* has followed the links, n links at most: -1 when the chain of links ends
\* nowhere.
RECURSIVE FollowLinks(_, _, _)
FollowLinks(fs, id, n) ==
  IF id = -1 \/ id = 0 \/ fs.tree[id].type # "link" THEN id
  ELSE IF n = 0 THEN -1
  ELSE FollowLinks(fs, fs.targets[id], n - 1)

\* fs.readdir(dirPath, {withFileTypes: true}) on the file system fs, a record
\* of the tree, of what its links point to (targets) and of the directories
\* whose listing fails (faults): the error, or the fs.Dirent of every entry of
\* the directory, each carrying the type of the directory entry itself. A
\* dirPath that names a link lists what the link leads to.
fsReaddir(fs, dirPath) ==
  LET t == fs.tree
      ids == {i \in 0..Len(t) : AbsPath(t, i) = dirPath}
  IN IF ids = {} THEN [err |-> FsError("ENOENT", dirPath), dirents |-> <<>>]
     ELSE LET id == FollowLinks(fs, CHOOSE i \in ids : TRUE, Len(t))
              kids == ChildIds(t, id)
          IN IF id = -1
               THEN [err |-> FsError("ENOENT", dirPath), dirents |-> <<>>]
             ELSE IF id # 0 /\ t[id].type = "file"
               THEN [err |-> FsError("ENOTDIR", dirPath), dirents |-> <<>>]
             ELSE IF fs.faults[id] # "ok"
               THEN [err |-> FsError(fs.faults[id], dirPath), dirents |-> <<>>]
             ELSE [err |-> NoError,
                   dirents |-> [j \in 1..Len(kids) |->
                                  [name |-> t[kids[j]].name,
                                   type |-> t[kids[j]].type]]]

\* A test that follows links, as one on fs.statSync would: a link counts as
\* a directory.
DirentIsDirectoryFollowingLinks(dirent) == dirent.type \in {"dir", "link"}

\* fs.Dirent's type tests: one type per directory entry, the link's own.
DirentIsDirectory(dirent) == dirent.type = "dir"
DirentIsFile(dirent) == dirent.type = "file"
DirentIsSymbolicLink(dirent) == dirent.type = "link"

\* ---------------------------------------------------------------- RegExp
\* A pattern option: absent, a pattern-source string, or a RegExp object of
\* the caller with its flags. Sources are literal characters, optionally
\* closed by the end anchor "$"; an unclosed "(" makes a source invalid.
NullPattern ==
  [kind |-> "null", source |-> <<>>, ignoreCase |-> FALSE, global |-> FALSE]
StringPattern(src) ==
  [kind |-> "string", source |-> src, ignoreCase |-> FALSE, global |-> FALSE]
RegExpPattern(src, i, g) ==
  [kind |-> "regexp", source |-> src, ignoreCase |-> i, global |-> g]

\* The patterns a caller may pass: none, the string "b$", the invalid string
\* "(", and the RegExp object /B/g.
Patterns ==
  {NullPattern, StringPattern(<<"b", "$">>), StringPattern(<<"(">>),
   RegExpPattern(<<"B">>, FALSE, TRUE)}

Min(S) == CHOOSE x \in S : \A y \in S : x <= y

\* new RegExp(source, flags) throws a SyntaxError on an invalid source.
IsValidSource(src) == \A j \in 1..Len(src) : src[j] # "("

ToUpperCase(c) == IF c = "a" THEN "A" ELSE IF c = "b" THEN "B" ELSE c

Canonicalize(re, c) == IF re.ignoreCase THEN ToUpperCase(c) ELSE c

Anchored(src) == Len(src) > 0 /\ src[Len(src)] = "$"
Literal(src) == IF Anchored(src) THEN SubSeq(src, 1, Len(src) - 1) ELSE src

\* The source of re matches str at offset k (k characters precede the match).
MatchesAt(re, str, k) ==
  LET lit == Literal(re.source)
  IN /\ k + Len(lit) <= Len(str)
     /\ \A j \in 1..Len(lit) :
          Canonicalize(re, str[k + j]) = Canonicalize(re, lit[j])
     /\ Anchored(re.source) => k + Len(lit) = Len(str)

\* RegExp.prototype.test on an object whose lastIndex is li: the verdict and
\* the lastIndex the call leaves. Without the global flag the search starts
\* at 0 and lastIndex is untouched; with it the search starts at lastIndex,
\* which becomes the end of the match, or 0 when there is none.
RegExpTest(re, li, str) ==
  LET from == IF re.global THEN li ELSE 0
      ks == IF from > Len(str) THEN {}
            ELSE {k \in from..Len(str) : MatchesAt(re, str, k)}
  IN IF ks = {}
       THEN [ok |-> FALSE, lastIndex |-> IF re.global THEN 0 ELSE li]
       ELSE [ok |-> TRUE,
             lastIndex |-> IF re.global
                             THEN Min(ks) + Len(Literal(re.source)) ELSE li]

\* The lastIndex of the caller's two RegExp objects.
FreshLastIndex == [mtch |-> 0, ignr |-> 0]

\* Lines 859-877 and 1013-1031: mtchRE / ignrRE from an option. A RegExp
\* object is used as it is (shared: its lastIndex lives across the calls); a
\* string is compiled anew, case-insensitive, by every call.
CompileRE(pattern) ==
  IF pattern.kind = "null" \/ (pattern.kind = "string" /\ pattern.source = <<>>)
    THEN [set |-> FALSE, shared |-> FALSE, source |-> <<>>,
          ignoreCase |-> FALSE, global |-> FALSE]
  ELSE IF pattern.kind = "regexp"
    THEN [set |-> TRUE, shared |-> TRUE, source |-> pattern.source,
          ignoreCase |-> pattern.ignoreCase, global |-> pattern.global]
  ELSE [set |-> TRUE, shared |-> FALSE, source |-> pattern.source,
        ignoreCase |-> TRUE, global |-> FALSE]

\* The SyntaxError the compilation of an option throws, if any.
CompileError(pattern) ==
  IF pattern.kind = "string" /\ pattern.source # <<>>
     /\ ~IsValidSource(pattern.source)
    THEN SyntaxError(pattern.source) ELSE NoError

\* re.test(relPath) for mtchRE (which = "mtch") or ignrRE ("ignr"), li being
\* the lastIndex of the caller's objects: the verdict and the new lastIndex.
TestRE(re, which, li, relPath) ==
  IF re.shared
    THEN LET r == RegExpTest(re, li[which], relPath)
         IN [ok |-> r.ok, lastIndex |-> [li EXCEPT ![which] = r.lastIndex]]
    ELSE [ok |-> RegExpTest(re, 0, relPath).ok, lastIndex |-> li]

\* ------------------------------------------------------- one directory level
\* The options object of a top-level call, but for withFileTypes, which the
\* call reads last (line 952). The private _prefixDirName is absent (the
\* default ''); the recursive calls set it.
Options ==
  [isOnlyFile : BOOLEAN, isOnlyDir : BOOLEAN, excludesSymlink : BOOLEAN,
   matchedRegExp : Patterns, ignoredRegExp : Patterns,
   prefixDirName : {<<>>}]

\* The options object o with withFileTypes set.
FullOptions(o, withFileTypes) ==
  [isOnlyFile |-> o.isOnlyFile, isOnlyDir |-> o.isOnlyDir,
   excludesSymlink |-> o.excludesSymlink,
   matchedRegExp |-> o.matchedRegExp, ignoredRegExp |-> o.ignoredRegExp,
   withFileTypes |-> withFileTypes, prefixDirName |-> o.prefixDirName]

\* Lines 855-879 (1009-1033): the filtering options of one invocation.
ParseOptions(options) ==
  [isOnlyFile |-> options.isOnlyFile,
   isOnlyDir |-> options.isOnlyDir,
   excludesSymlink |-> options.excludesSymlink,
   mtchRE |-> CompileRE(options.matchedRegExp),
   ignrRE |-> CompileRE(options.ignoredRegExp),
   prefixDirName |-> options.prefixDirName]

\* The error lines 859-877 throw: matchedRegExp is compiled first.
ParseOptionsError(options) ==
  IF CompileError(options.matchedRegExp) # NoError
    THEN CompileError(options.matchedRegExp)
    ELSE CompileError(options.ignoredRegExp)

\* Lines 892 and 933: the entry passes if there is no mtchRE or mtchRE.test
\* holds; the verdict and the lastIndex left.
TestMatched(cfg, li, relPath) ==
  IF cfg.mtchRE.set THEN TestRE(cfg.mtchRE, "mtch", li, relPath)
  ELSE [ok |-> TRUE, lastIndex |-> li]

\* The verdict r of a test, negated: !ignrRE.test(relPath).
Negated(r) == [ok |-> ~r.ok, lastIndex |-> r.lastIndex]

\* Lines 893 and 934, m being the verdict of the line before: ignrRE.test is
\* only run on an entry that got this far, and the entry passes if it fails.
TestIgnored(cfg, m, relPath) ==
  IF ~m.ok \/ ~cfg.ignrRE.set THEN m
  ELSE Negated(TestRE(cfg.ignrRE, "ignr", m.lastIndex, relPath))

\* The two pattern tests in the order the code runs them.
TestPatterns(cfg, li, relPath) ==
  TestIgnored(cfg, TestMatched(cfg, li, relPath), relPath)

\* AdmitLeaf without the isOnlyDir test of line 890.
AdmitLeafDespiteOnlyDir(cfg, li, dirent, relPath) ==
  IF cfg.excludesSymlink /\ DirentIsSymbolicLink(dirent)
    THEN [ok |-> FALSE, lastIndex |-> li]
    ELSE TestPatterns(cfg, li, relPath)

\* Lines 888-893: the filter of a non-directory entry, and the lastIndex the
\* tests it ran leave behind.
AdmitLeaf(cfg, li, dirent, relPath) ==
  IF cfg.isOnlyDir THEN [ok |-> FALSE, lastIndex |-> li]
  ELSE IF cfg.excludesSymlink /\ DirentIsSymbolicLink(dirent)
    THEN [ok |-> FALSE, lastIndex |-> li]
  ELSE TestPatterns(cfg, li, relPath)

\* LeafInfo with isFile taken as "not a directory".
LeafInfoIsFileByDefault(dirPath, dirent, relPath) ==
  [name |-> dirent.name, relPath |-> relPath,
   path |-> PathResolve(dirPath, dirent.name),
   isDirectory |-> FALSE, isFile |-> ~DirentIsDirectory(dirent),
   isSymbolicLink |-> DirentIsSymbolicLink(dirent)]

\* Lines 895-902: the FileInfo of a non-directory entry.
LeafInfo(dirPath, dirent, relPath) ==
  [name |-> dirent.name, relPath |-> relPath,
   path |-> PathResolve(dirPath, dirent.name),
   isDirectory |-> FALSE, isFile |-> DirentIsFile(dirent),
   isSymbolicLink |-> DirentIsSymbolicLink(dirent)]

\* Lines 906-913: the FileInfo of a directory entry.
DirInfo(dirPath, dirent, relPath) ==
  [name |-> dirent.name, relPath |-> relPath,
   path |-> PathResolve(dirPath, dirent.name),
   isDirectory |-> TRUE, isFile |-> FALSE,
   isSymbolicLink |-> DirentIsSymbolicLink(dirent)]

\* Line 895: files.push, if the filter let the entry through; the tests of
\* the filter have moved lastIndex either way.
PushLeaf(acc, a, info) ==
  [files |-> IF a.ok THEN Append(acc.files, info) ELSE acc.files,
   dirs |-> acc.dirs, lastIndex |-> a.lastIndex]

\* PushDir with the directories pushed before dropped.
PushDirAlone(acc, info) == [acc EXCEPT !.dirs = <<info>>]

\* Line 906: dirs.push.
PushDir(acc, info) == [acc EXCEPT !.dirs = Append(@, info)]

\* OnDirent with a directory the isOnlyFile filter rejects left out of dirs.
OnDirentPruning(cfg, dirPath, dirent, relPath, acc) ==
  IF ~DirentIsDirectory(dirent)
    THEN PushLeaf(acc, AdmitLeaf(cfg, acc.lastIndex, dirent, relPath),
                  LeafInfo(dirPath, dirent, relPath))
  ELSE IF cfg.isOnlyFile THEN acc
  ELSE PushDir(acc, DirInfo(dirPath, dirent, relPath))

\* Lines 886-914: the body of dirents.forEach on one dirent.
OnDirent(cfg, dirPath, dirent, relPath, acc) ==
  IF ~DirentIsDirectory(dirent)
    THEN PushLeaf(acc, AdmitLeaf(cfg, acc.lastIndex, dirent, relPath),
                  LeafInfo(dirPath, dirent, relPath))
    ELSE PushDir(acc, DirInfo(dirPath, dirent, relPath))

\* Lines 885-915 (1039-1069): dirents.forEach from entry k on, acc holding
\* files, dirs and the lastIndex of the caller's RegExp objects.
RECURSIVE ForEachDirent(_, _, _, _, _)
ForEachDirent(cfg, dirPath, dirents, k, acc) ==
  IF k > Len(dirents) THEN acc
  ELSE ForEachDirent(cfg, dirPath, dirents, k + 1,
         OnDirent(cfg, dirPath, dirents[k],
                  PathJoin(cfg.prefixDirName, dirents[k].name), acc))

\* AdmitDir without the isOnlyFile test of line 931.
AdmitDirDespiteOnlyFile(cfg, li, dir) ==
  IF cfg.excludesSymlink /\ dir.isSymbolicLink
    THEN [ok |-> FALSE, lastIndex |-> li]
    ELSE TestPatterns(cfg, li, dir.relPath)

\* Lines 930-935 (1083-1088): the filter of a directory's own FileInfo.
AdmitDir(cfg, li, dir) ==
  IF cfg.isOnlyFile THEN [ok |-> FALSE, lastIndex |-> li]
  ELSE IF cfg.excludesSymlink /\ dir.isSymbolicLink
    THEN [ok |-> FALSE, lastIndex |-> li]
  ELSE TestPatterns(cfg, li, dir.relPath)

\* ConcatBranch with the result of the subdirectory left out.
ConcatBranchWithoutSubtree(dirsBranches, admitted, dir, subDir) ==
  IF admitted THEN dirsBranches \o <<dir>> ELSE dirsBranches

\* ConcatBranch with the result of the subdirectory put at the front of
\* dirsBranches and its own FileInfo at the end.
ConcatBranchApart(dirsBranches, admitted, dir, subDir) ==
  IF admitted THEN subDir \o dirsBranches \o <<dir>>
  ELSE subDir \o dirsBranches

\* Lines 929-939 (1082-1092): what a finished subdirectory adds to
\* dirsBranches: its own FileInfo if admitted, then its result.
ConcatBranch(dirsBranches, admitted, dir, subDir) ==
  LET own == IF admitted THEN dirsBranches \o <<dir>> ELSE dirsBranches
  IN IF Len(subDir) > 0 THEN own \o subDir ELSE own

\* JoinResult with the branches ahead of the files.
JoinResultBranchesFirst(files, dirsBranches) == dirsBranches \o files

\* Lines 943-946 (1095-1098): rtnFilesInfo, the join of the two lists.
JoinResult(files, dirsBranches) == files \o dirsBranches

\* ProjectResult with the base name returned in place of relPath.
ProjectResultByName(withFileTypes, rtnFilesInfo) ==
  IF ~withFileTypes
    THEN [j \in 1..Len(rtnFilesInfo) |-> rtnFilesInfo[j].name]
    ELSE rtnFilesInfo

\* Lines 952-957 (1104-1109): the list returned, by withFileTypes.
ProjectResult(withFileTypes, rtnFilesInfo) ==
  IF ~withFileTypes
    THEN [j \in 1..Len(rtnFilesInfo) |-> rtnFilesInfo[j].relPath]
    ELSE rtnFilesInfo

\* The options of the recursive call on dir (lines 923-927, 1076-1080).
SubOptions(options, dir) ==
  [options EXCEPT !.withFileTypes = TRUE, !.prefixDirName = dir.relPath]

\* ---------------------------------------------------------- sequential walk
\* readdirRecursivelySync(dirPath, options) on file system fs. h is the state
\* the call reads and writes besides its arguments: the lastIndex of the
\* caller's RegExp objects and the log of the fs.readdirSync calls. The result
\* is the error thrown (NoError: none), the list returned and the new h.
RECURSIVE readdirRecursivelySync(_, _, _, _)
RECURSIVE SyncForEachDir(_, _, _, _, _, _)

\* Lines 1082-1092, a being the verdict of the filter on dir: the branch of
\* dir joins dirsBranches.
SyncConcat(acc, a, dir, sub) ==
  [err |-> NoError,
   dirsBranches |-> ConcatBranch(acc.dirsBranches, a.ok, dir, sub.ret),
   h |-> [sub.h EXCEPT !.lastIndex = a.lastIndex]]

\* Lines 1076-1092, sub being the outcome of the recursive call on dir: its
\* error leaves the loop, its list is filed under dir.
SyncBranch(cfg, acc, dir, sub) ==
  IF sub.err # NoError
    THEN [err |-> sub.err, dirsBranches |-> acc.dirsBranches, h |-> sub.h]
    ELSE SyncConcat(acc, AdmitDir(cfg, sub.h.lastIndex, dir), dir, sub)

\* SyncForEachDir with the loop going on to the next directory after the
\* call on one has thrown.
SyncForEachDirThrough(fs, options, cfg, dirs, k, acc) ==
  IF k > Len(dirs) THEN acc
  ELSE SyncForEachDir(fs, options, cfg, dirs, k + 1,
         SyncBranch(cfg, acc, dirs[k],
                    readdirRecursivelySync(fs, dirs[k].path,
                                           SubOptions(options, dirs[k]),
                                           acc.h)))

\* Lines 1075-1093: dirs.forEach from directory k on.
SyncForEachDir(fs, options, cfg, dirs, k, acc) ==
  IF k > Len(dirs) \/ acc.err # NoError THEN acc
  ELSE SyncForEachDir(fs, options, cfg, dirs, k + 1,
         SyncBranch(cfg, acc, dirs[k],
                    readdirRecursivelySync(fs, dirs[k].path,
                                           SubOptions(options, dirs[k]),
                                           acc.h)))

\* Lines 1095-1109, below being the outcome of dirs.forEach.
SyncReturn(options, level, below) ==
  IF below.err # NoError
    THEN [err |-> below.err, ret |-> <<>>, h |-> below.h]
    ELSE [err |-> NoError,
          ret |-> ProjectResult(options.withFileTypes,
                                JoinResult(level.files, below.dirsBranches)),
          h |-> below.h]

\* Lines 1071-1109, level being the outcome of dirents.forEach.
SyncBelow(fs, options, cfg, level, h) ==
  SyncReturn(options, level,
             SyncForEachDir(fs, options, cfg, level.dirs, 1,
                            [err |-> NoError, dirsBranches |-> <<>>,
                             h |-> [h EXCEPT !.lastIndex = level.lastIndex]]))

\* Lines 1008-1109, listing being the outcome of fs.readdirSync.
SyncAfterReaddir(fs, dirPath, options, h, listing) ==
  IF listing.err # NoError
    THEN [err |-> listing.err, ret |-> <<>>, h |-> h]
  ELSE IF ParseOptionsError(options) # NoError
    THEN [err |-> ParseOptionsError(options), ret |-> <<>>, h |-> h]
  ELSE SyncBelow(fs, options, ParseOptions(options),
                 ForEachDirent(ParseOptions(options), dirPath,
                               listing.dirents, 1,
                               [files |-> <<>>, dirs |-> <<>>,
                                lastIndex |-> h.lastIndex]),
                 h)

readdirRecursivelySync(fs, dirPath, options, h) ==
  SyncAfterReaddir(fs, dirPath, options,
                   [h EXCEPT !.calls = Append(@, dirPath)],
                   fsReaddir(fs, dirPath))

FreshHeap == [lastIndex |-> FreshLastIndex, calls |-> <<>>]

\* ---------------------------------------------------------- text utilities
\* The longest text handed to a text utility.
MaxLen == 3

CR == "\r"
LF == "\n"

\* The characters of a text: a letter, a blank and the two line terminators.
Chars == {"a", " ", CR, LF}

\* Strings as sequences of characters.
Texts == UNION {[1..n -> Chars] : n \in 0..MaxLen}

\* String.prototype.toLowerCase on the letters of the end-of-line names.
ToLowerCase(c) ==
  CASE c = "C" -> "c" [] c = "R" -> "r" [] c = "L" -> "l" [] c = "F" -> "f"
    [] c = "M" -> "m" [] c = "D" -> "d" [] OTHER -> c

\* A RegExp of the form /^(x|y)$/i tested on str.
TestIgnoringCase(words, str) ==
  [i \in 1..Len(str) |-> ToLowerCase(str[i])] \in words

\* \s and the line terminators of a regular expression, on Chars.
IsSpace(c) == c \in {" ", CR, LF}
IsLineTerminator(c) == c \in {CR, LF}

\* The first index past the run of \s that starts at index i of s.
RECURSIVE SpaceRunEnd(_, _)
SpaceRunEnd(s, i) ==
  IF i > Len(s) \/ ~IsSpace(s[i]) THEN i ELSE SpaceRunEnd(s, i + 1)

\* The indices past index i, up to the end e of its run of \s, where $ holds
\* under the m flag: the end of the text, or a line terminator next.
LineEndsIn(s, i, e) ==
  {k \in (i + 1)..e : k = Len(s) + 1 \/ IsLineTerminator(s[k])}

\* The first index past the match at index i of s of one of the three regular
\* expressions the text utilities replace with, each named by its source:
\* /\r?\n/g (line 280), /^\s+/gm (line 386), /\s+$/gm (line 390); i for no
\* match. ^ under the m flag holds at the start of the text and after a line
\* terminator. \s+ is greedy: /\s+$/m takes the run of \s up to the last
\* index of the run where $ holds.
MatchEnd(re, s, i) ==
  IF re = "\\r?\\n"
    THEN (IF s[i] = LF THEN i + 1
          ELSE IF s[i] = CR /\ i < Len(s) /\ s[i + 1] = LF THEN i + 2
          ELSE i)
  ELSE IF re = "^\\s+"
    THEN (IF i = 1 \/ IsLineTerminator(s[i - 1]) THEN SpaceRunEnd(s, i)
          ELSE i)
  ELSE IF LineEndsIn(s, i, SpaceRunEnd(s, i)) = {} THEN i
  ELSE CHOOSE k \in LineEndsIn(s, i, SpaceRunEnd(s, i)) :
         \A j \in LineEndsIn(s, i, SpaceRunEnd(s, i)) : j <= k

\* What stands at index i of a replacement string: "$$" is a "$", "$&" is
\* the matched text, anything else is itself.
IsDollarPattern(replaceValue, i) ==
  /\ replaceValue[i] = "$" /\ i < Len(replaceValue)
  /\ replaceValue[i + 1] \in {"$", "&"}

\* String.prototype.replace with a replacement string: its expansion for the
\* text matched, from index i of the replacement on.
RECURSIVE GetSubstitution(_, _, _)
GetSubstitution(matched, replaceValue, i) ==
  IF i > Len(replaceValue) THEN <<>>
  ELSE (IF ~IsDollarPattern(replaceValue, i) THEN <<replaceValue[i]>>
        ELSE IF replaceValue[i + 1] = "$" THEN <<"$">>
        ELSE matched)
       \o GetSubstitution(matched, replaceValue,
                          IF IsDollarPattern(replaceValue, i) THEN i + 2
                          ELSE i + 1)

\* _trimAllLinesReplacer (lines 355-357): matched.replace(/[^\r\n]/g, '').
trimAllLinesReplacer(matched) ==
  SelectSeq(matched, LAMBDA c : c \in {CR, LF})

\* s.replace(re, ...) from index i of s on: the matches are found left to
\* right in s itself, each search starting where the last match ended. What
\* replaces a match is the expansion of the replacement string of convertEOL,
\* or what _trimAllLinesReplacer returns.
RECURSIVE StringReplace(_, _, _, _)
RECURSIVE ReplaceAt(_, _, _, _, _)
ReplaceAt(s, re, replaceValue, i, e) ==
  (IF e = i THEN <<s[i]>>
   ELSE IF re = "\\r?\\n"
     THEN GetSubstitution(SubSeq(s, i, e - 1), replaceValue, 1)
   ELSE trimAllLinesReplacer(SubSeq(s, i, e - 1)))
  \o StringReplace(s, re, replaceValue, IF e = i THEN i + 1 ELSE e)

StringReplace(s, re, replaceValue, i) ==
  IF i > Len(s) THEN <<>>
  ELSE ReplaceAt(s, re, replaceValue, i, MatchEnd(re, s, i))

\* convertEOL(strData, eol), lines 273-281: the replacement for eol, then
\* strData.replace(/\r?\n/g, eolCode).
convertEOL(strData, eol) ==
  StringReplace(
    strData, "\\r?\\n",
    IF TestIgnoringCase({<<"c", "r", "l", "f">>, <<"d", "o", "s">>}, eol)
      THEN <<CR, LF>>
    ELSE IF TestIgnoringCase({<<"l", "f">>, <<"u", "n", "i", "x">>}, eol)
      THEN <<LF>>
    ELSE IF TestIgnoringCase({<<"c", "r">>, <<"m", "a", "c">>}, eol)
      THEN <<CR>>
    ELSE eol,
    1)

\* trimAllLines(strLines, option), lines 383-394: the two replacements.
TrimStart(strLines, option) ==
  IF option \in {"start", "all"}
    THEN StringReplace(strLines, "^\\s+", <<>>, 1)
    ELSE strLines

trimAllLines(strLines, option) ==
  IF option \in {"end", "all"}
    THEN StringReplace(TrimStart(strLines, option), "\\s+$", <<>>, 1)
    ELSE TrimStart(strLines, option)

\* _prewriteAsText(strData, options), lines 417-432: a trim or an eol that is
\* undefined, null or '' is skipped.
ConvertIfAsked(writtenData, eol) ==
  IF eol # <<>> THEN convertEOL(writtenData, eol) ELSE writtenData

prewriteAsText(str, opts) ==
  ConvertIfAsked(IF opts.trim # "" THEN trimAllLines(str, opts.trim) ELSE str,
                 opts.eol)

\* iconv.encode(text, 'utf8', {addBOM}) and iconv.decode(buf, 'utf8') on
\* texts of Chars: one byte per character, after the byte order mark if any,
\* which decoding strips.
IconvEncode(text, addBOM) == IF addBOM THEN <<"\\uFEFF">> \o text ELSE text
IconvDecode(buf) ==
  IF buf # <<>> /\ buf[1] = "\\uFEFF" THEN Tail(buf) ELSE buf

\* detectTextEol on a buffer, lines 119-133: the error it throws, or the name
\* it returns.
Contains(text, sub) ==
  \E i \in 1..Len(text) :
    i + Len(sub) - 1 <= Len(text) /\ SubSeq(text, i, i + Len(sub) - 1) = sub

\* detectTextEol with the test for a CR ahead of the test for a CR LF pair.
detectTextEolCrFirst(buf) ==
  IF IconvDecode(buf) = <<>>
    THEN [err |-> [kind |-> "ERR_INVALID_ARG_VALUE", arg |-> "textData"],
          ret |-> <<>>]
  ELSE [err |-> NoError,
        ret |-> IF Contains(IconvDecode(buf), <<CR>>) THEN <<"c", "r">>
                ELSE IF Contains(IconvDecode(buf), <<CR, LF>>)
                  THEN <<"c", "r", "l", "f">>
                ELSE IF Contains(IconvDecode(buf), <<LF>>) THEN <<"l", "f">>
                ELSE <<>>]

detectTextEol(buf) ==
  IF IconvDecode(buf) = <<>>
    THEN [err |-> [kind |-> "ERR_INVALID_ARG_VALUE", arg |-> "textData"],
          ret |-> <<>>]
  ELSE [err |-> NoError,
        ret |-> IF Contains(IconvDecode(buf), <<CR, LF>>)
                  THEN <<"c", "r", "l", "f">>
                ELSE IF Contains(IconvDecode(buf), <<CR>>) THEN <<"c", "r">>
                ELSE IF Contains(IconvDecode(buf), <<LF>>) THEN <<"l", "f">>
                ELSE <<>>]

\* ------------------------------------------------- what the utilities touch
\* os.tmpdir(), and the paths the utilities are called on: '' (the empty
\* string), a file and a directory that exist, a path makeTmpPath() returns
\* (nothing is there), and a path two missing directories below it.
TmpDir == <<Sep, "tmp">>
EmptyPath == <<>>
FilePath == PathResolve(TmpDir, <<"f">>)
DirPath == PathResolve(TmpDir, <<"d">>)
NewPath == PathResolve(TmpDir, <<"n">>)
NePath ==
  PathResolve(PathResolve(NewPath, <<"foo">>), <<"to-write.txt">>)

\* What lies at a path: its type as fs.lstat reports it ("absent": nothing
\* lies there), and its content.
Node(type, data) == [type |-> type, data |-> data]

\* The disk before a utility is called.
InitialDisk ==
  [p \in {TmpDir, FilePath, DirPath, NewPath,
          PathResolve(NewPath, <<"foo">>), NePath} |->
     IF p \in {TmpDir, DirPath} THEN Node("dir", <<>>)
     ELSE IF p = FilePath THEN Node("file", <<"a">>)
     ELSE Node("absent", <<>>)]

\* Whether something lies at path p, and whether the directory p lies in,
\* path.dirname(p), is one (the root is).
Exists(d, p) == p \in DOMAIN d /\ d[p].type # "absent"
InDirectory(d, p) ==
  \/ Len(p) <= 2
  \/ /\ Exists(d, SubSeq(p, 1, Len(p) - 2))
     /\ d[SubSeq(p, 1, Len(p) - 2)].type = "dir"

\* fs.link / fs.linkSync(existingPath, newPath): link(2), which makes newPath
\* one more name (a hard link) of what existingPath names, never of a
\* directory.
fsLink(d, existingPath, newPath) ==
  IF ~Exists(d, existingPath)
    THEN [err |-> FsError("ENOENT", existingPath), disk |-> d]
  ELSE IF d[existingPath].type = "dir"
    THEN [err |-> FsError("EPERM", existingPath), disk |-> d]
  ELSE IF newPath = EmptyPath \/ ~InDirectory(d, newPath)
    THEN [err |-> FsError("ENOENT", newPath), disk |-> d]
  ELSE IF Exists(d, newPath)
    THEN [err |-> FsError("EEXIST", newPath), disk |-> d]
  ELSE [err |-> NoError, disk |-> [d EXCEPT ![newPath] = d[existingPath]]]

\* fs.stat / fs.statSync(existingPath): the error, or the type.
fsStat(d, existingPath) ==
  IF ~Exists(d, existingPath)
    THEN [err |-> FsError("ENOENT", existingPath), type |-> "absent"]
    ELSE [err |-> NoError, type |-> d[existingPath].type]

\* The command mklink of cmd.exe, run by exec / execSync: it makes newPath a
\* symbolic link, with /D a directory symbolic link, when the process holds
\* the privilege to and nothing lies at newPath yet.
ExecMklink(d, privileged, newPath) ==
  IF ~privileged \/ Exists(d, newPath) \/ ~InDirectory(d, newPath)
    THEN [err |-> FsError("stderr", newPath), disk |-> d]
    ELSE [err |-> NoError,
          disk |-> [d EXCEPT ![newPath] = Node("symlink", <<>>)]]

\* fs.writeFile / fs.writeFileSync(filePath, data): it creates the file, never
\* a directory.
fsWriteFile(d, filePath, data) ==
  IF ~InDirectory(d, filePath)
    THEN [err |-> FsError("ENOENT", filePath), disk |-> d]
  ELSE IF Exists(d, filePath) /\ d[filePath].type = "dir"
    THEN [err |-> FsError("EISDIR", filePath), disk |-> d]
  ELSE [err |-> NoError,
        disk |-> [d EXCEPT ![filePath] = Node("file", data)]]

\* textDataToBuf(textData), lines 38-48, textData being a path: the error
\* thrown when nothing lies there, or what fs.readFileSync returns.
textDataToBuf(d, textData) ==
  IF ~Exists(d, textData)
    THEN [err |-> [kind |-> "ERR_INVALID_ARG_VALUE", arg |-> "textData"],
          buf |-> <<>>]
  ELSE IF d[textData].type = "dir"
    THEN [err |-> FsError("EISDIR", textData), buf |-> <<>>]
  ELSE [err |-> NoError, buf |-> d[textData].data]

\* The error mklink, mklinkSync, writeAsText and writeAsTextSync throw on an
\* empty argument.
ArgError(name) == [kind |-> "ERR_INVALID_ARG_VALUE", arg |-> name]

\* The options of writeAsText the caller leaves out.
NoWriteOptions == [trim |-> "", eol |-> <<>>, bom |-> FALSE]

\* A call of a utility: its name and arguments, where it stands ("done":
\* it has returned, thrown, or settled its promise), and what it delivered.
NoOp == [name |-> "none", args |-> <<>>, at |-> "none", err |-> NoError,
         ret |-> <<>>]
Op(name, args, at, err, ret) ==
  [name |-> name, args |-> args, at |-> at, err |-> err, ret |-> ret]

\* ---------------------------------------------------------------- state
VARIABLES
  tree,       \* the directory tree below RootPath
  targets,    \* per entry: the entry a link points to (0: the walk root),
              \* -1 for a link to nothing and for what is no link
  faults,     \* per directory: "ok", or the error its listing fails with
  options,    \* the options of the top-level call
  pc,         \* "idle", "sync" (readdirRecursivelySync has returned or
              \* thrown), "async" (readdirRecursively has been called)
  lastIndex,  \* the lastIndex of the caller's two RegExp objects
  calls,      \* the directories fs.readdir / fs.readdirSync was called on
  tasks,      \* the invocations of readdirRecursively, one per directory
  outcome,    \* what the top-level call delivered to its caller
  platform,   \* os.platform()
  elevated,   \* whether the process may create symbolic links on win32
  disk,       \* per path the utilities are called on: what lies there
  strData,    \* the text handed to the text utilities
  writeOptions, \* the options handed to writeAsText / writeAsTextSync
  op          \* the last call of a utility: its name, state and result

walkVars ==
  <<tree, targets, faults, options, pc, lastIndex, calls, tasks, outcome>>

utilVars == <<platform, elevated, disk, strData, writeOptions, op>>

vars == <<walkVars, utilVars>>

\* No utility has been called.
UtilitiesIdle ==
  /\ platform = "linux"
  /\ elevated = FALSE
  /\ disk = InitialDisk
  /\ strData = <<>>
  /\ writeOptions = NoWriteOptions
  /\ op = NoOp

FileSystem == [tree |-> tree, targets |-> targets, faults |-> faults]

\* The entry whose absolute path is dirPath.
IdOfPath(t, dirPath) == CHOOSE i \in 0..Len(t) : AbsPath(t, i) = dirPath

\* What the caller has got: nothing yet, the list returned (with the
\* withFileTypes it was projected under), or the error thrown.
Pending ==
  [status |-> "pending", value |-> <<>>, withFileTypes |-> FALSE,
   error |-> NoError]
Resolved(v, withFileTypes) ==
  [status |-> "resolved", value |-> v, withFileTypes |-> withFileTypes,
   error |-> NoError]
Rejected(e) ==
  [status |-> "rejected", value |-> <<>>, withFileTypes |-> FALSE,
   error |-> e]

\* An invocation of readdirRecursively: where it stands (none: never called;
\* listing: awaiting readdirPromise, line 850; awaiting: awaiting Promise.all,
\* line 921; resolved; rejected), its dirPath and its _prefixDirName, its
\* entry in the dirs of the invocation that called it (parent, dir), and its
\* locals. Its other options are those of the top-level call, withFileTypes
\* being true below the root (line 925).
NoTask ==
  [st |-> "none", dirPath |-> <<>>, prefixDirName |-> <<>>, parent |-> -1,
   dir |-> <<>>, files |-> <<>>, dirs |-> <<>>, dirsBranches |-> <<>>]

NewTask(dirPath, prefixDirName, parent, dir) ==
  [st |-> "listing", dirPath |-> dirPath, prefixDirName |-> prefixDirName,
   parent |-> parent, dir |-> dir, files |-> <<>>, dirs |-> <<>>,
   dirsBranches |-> <<>>]

TaskOptions(task) ==
  [FullOptions(options, TRUE) EXCEPT !.prefixDirName = task.prefixDirName]

\* ---------------------------------------------------------- concurrent walk
\* A record S of tasks, lastIndex, calls and outcome is the part of the state
\* one turn of the event loop rewrites.

\* The async function of task d throws e: its promise rejects. The arrow
\* function that awaited it (line 923) rejects too, which rejects the
\* Promise.all of the caller unless that is settled already, and so on up.
\* Reject with the error kept by the task that threw it: the awaiting callers
\* never hear of it.
RejectWithoutPropagation(S, d, e) == [S EXCEPT !.tasks[d].st = "rejected"]

\* Reject with every failure delivered to the caller, a settled Promise.all
\* notwithstanding: the last error wins.
RejectLastWins(S, d, e) ==
  [S EXCEPT !.tasks[d].st = "rejected", !.outcome = Rejected(e)]

RECURSIVE Reject(_, _, _)
Reject(S, d, e) ==
  LET S1 == [S EXCEPT !.tasks[d].st = "rejected"]
      p == S.tasks[d].parent
  IN IF p = -1 THEN [S1 EXCEPT !.outcome = Rejected(e)]
     ELSE IF S1.tasks[p].st = "awaiting" THEN Reject(S1, p, e)
     ELSE S1

\* Task d reaches line 952 with its rtnFilesInfo (lines 943-946). The
\* top-level call is left there, about to read withFileTypes off the caller's
\* options. A call on a subdirectory returns its rtnFilesInfo (withFileTypes
\* is true, line 925) and the arrow function that awaited it resumes (lines
\* 929-939): it filters d's own FileInfo and appends the branch to the
\* dirsBranches of the caller; when that was the last of the caller's
\* subdirectories, Promise.all resolves and the caller goes on in turn.
\* Resolve with the arrow function that awaited the call never resumed: the
\* call on a subdirectory returns and nothing follows.
ResolveWithoutResuming(S, d) ==
  IF S.tasks[d].parent = -1
    THEN [S EXCEPT !.tasks[d].st = "resolved",
                   !.outcome =
                     [Pending EXCEPT
                        !.status = "returning",
                        !.value = JoinResult(S.tasks[d].files,
                                             S.tasks[d].dirsBranches)]]
    ELSE [S EXCEPT !.tasks[d].st = "resolved"]

RECURSIVE Resolve(_, _)

\* Resolve with the caller going on as soon as one of its subdirectories has
\* returned, the others still running.
ResolveOnFirstChild(S, d) ==
  LET task == S.tasks[d]
      p == task.parent
      rtnFilesInfo == JoinResult(task.files, task.dirsBranches)
      S1 == [S EXCEPT !.tasks[d].st = "resolved"]
  IN IF p = -1
       THEN [S1 EXCEPT !.outcome = [Pending EXCEPT !.status = "returning",
                                                   !.value = rtnFilesInfo]]
     ELSE
       LET S2 == [S1 EXCEPT
                    !.tasks[p].dirsBranches =
                      ConcatBranch(@, TRUE, task.dir, rtnFilesInfo)]
       IN IF S1.tasks[p].st = "awaiting" THEN Resolve(S2, p) ELSE S2

Resolve(S, d) ==
  LET task == S.tasks[d]
      p == task.parent
      rtnFilesInfo == JoinResult(task.files, task.dirsBranches)
      ret == ProjectResult(TRUE, rtnFilesInfo)
      S1 == [S EXCEPT !.tasks[d].st = "resolved"]
  IN IF p = -1
       THEN [S1 EXCEPT !.outcome = [Pending EXCEPT !.status = "returning",
                                                   !.value = rtnFilesInfo]]
     ELSE
       LET caller == S1.tasks[p]
           a == AdmitDir(ParseOptions(TaskOptions(caller)), S1.lastIndex,
                         task.dir)
           S2 == [S1 EXCEPT
                    !.lastIndex = a.lastIndex,
                    !.tasks[p].dirsBranches =
                      ConcatBranch(@, a.ok, task.dir, ret)]
           allDone == \A j \in 1..Len(caller.dirs) :
                        S2.tasks[IdOfPath(tree, caller.dirs[j].path)].st
                          = "resolved"
       IN IF caller.st = "awaiting" /\ allDone THEN Resolve(S2, p) ELSE S2

\* Lines 921-928, dirs.map from directory k on: every subdirectory's
\* readdirRecursively is called, and runs up to its first await, that is,
\* issues its fs.readdir.
RECURSIVE Spawn(_, _, _, _)
Spawn(S, d, dirs, k) ==
  IF k > Len(dirs) THEN S
  ELSE LET dir == dirs[k]
           c == IdOfPath(tree, dir.path)
       IN Spawn([S EXCEPT
                   !.tasks[c] = NewTask(dir.path, dir.relPath, d, dir),
                   !.calls = Append(@, dir.path)],
                d, dirs, k + 1)

\* Lines 850-941, entered when the listing of task d arrives.
AfterReaddir(S, d) ==
  LET task == S.tasks[d]
      listing == fsReaddir(FileSystem, task.dirPath)
  IN IF listing.err # NoError THEN Reject(S, d, listing.err)
     ELSE IF ParseOptionsError(TaskOptions(task)) # NoError
       THEN Reject(S, d, ParseOptionsError(TaskOptions(task)))
     ELSE
       LET cfg == ParseOptions(TaskOptions(task))
           level == ForEachDirent(cfg, task.dirPath, listing.dirents, 1,
                      [files |-> <<>>, dirs |-> <<>>,
                       lastIndex |-> S.lastIndex])
           S1 == [S EXCEPT !.lastIndex = level.lastIndex,
                           !.tasks[d].files = level.files,
                           !.tasks[d].dirs = level.dirs,
                           !.tasks[d].st = "awaiting"]
           S2 == Spawn(S1, d, level.dirs, 1)
       IN IF Len(level.dirs) = 0 THEN Resolve(S2, d) ELSE S2

\* The options with isOnlyDir alone, and with isOnlyFile alone.
DefaultOptions ==
  [isOnlyFile |-> FALSE, isOnlyDir |-> FALSE, excludesSymlink |-> FALSE,
   matchedRegExp |-> NullPattern, ignoredRegExp |-> NullPattern,
   prefixDirName |-> <<>>]
OnlyDirOptions == [DefaultOptions EXCEPT !.isOnlyDir = TRUE]
OnlyFileOptions == [DefaultOptions EXCEPT !.isOnlyFile = TRUE]

\* ---------------------------------------------------------------- actions
\* The links of tree t all pointing to nothing.
DanglingLinks(t) == [i \in 1..Len(t) |-> -1]

Init ==
  /\ tree \in Trees
  /\ targets = DanglingLinks(tree)
  /\ faults = [i \in 0..Len(tree) |-> "ok"]
  /\ options \in Options
  /\ pc = "idle"
  /\ lastIndex = FreshLastIndex
  /\ calls = <<>>
  /\ tasks = [i \in 0..Len(tree) |-> NoTask]
  /\ outcome = Pending
  /\ UtilitiesIdle

\* readdirRecursivelySync(RootPath, options): the whole call.
CallSync(withFileTypes) ==
  /\ pc = "idle"
  /\ LET r == readdirRecursivelySync(FileSystem, RootPath,
                                     FullOptions(options, withFileTypes),
                                     [lastIndex |-> lastIndex, calls |-> calls])
     IN /\ outcome' = IF r.err # NoError THEN Rejected(r.err)
                      ELSE Resolved(r.ret, withFileTypes)
        /\ lastIndex' = r.h.lastIndex
        /\ calls' = r.h.calls
  /\ pc' = "sync"
  /\ UNCHANGED <<tree, targets, faults, options, tasks>>
  /\ UNCHANGED utilVars

\* readdirRecursively(RootPath, options): the call runs up to its first
\* await, with fs.readdir issued on the root (line 850).
CallAsync ==
  /\ pc = "idle"
  /\ pc' = "async"
  /\ tasks' = [tasks EXCEPT ![0] = NewTask(RootPath, options.prefixDirName,
                                           -1, <<>>)]
  /\ calls' = Append(calls, RootPath)
  /\ UNCHANGED <<tree, targets, faults, options, lastIndex, outcome>>
  /\ UNCHANGED utilVars

\* Lines 952-957 of the top-level call: the outcomes it can deliver, one per
\* value of withFileTypes the caller's options may hold.
Deliveries(o) ==
  IF o.status = "returning"
    THEN {Resolved(ProjectResult(withFileTypes, o.value), withFileTypes) :
            withFileTypes \in BOOLEAN}
    ELSE {o}

\* One turn of the event loop: the fs.readdir of task d calls back, and every
\* continuation this makes runnable runs before the next callback.
ReaddirDone(d) ==
  /\ pc = "async"
  /\ tasks[d].st = "listing"
  /\ LET S == AfterReaddir([tasks |-> tasks, lastIndex |-> lastIndex,
                            calls |-> calls, outcome |-> outcome], d)
     IN /\ tasks' = S.tasks
        /\ lastIndex' = S.lastIndex
        /\ calls' = S.calls
        /\ outcome' \in Deliveries(S.outcome)
  /\ UNCHANGED <<tree, targets, faults, options, pc>>
  /\ UNCHANGED utilVars

Next ==
  \/ \E withFileTypes \in BOOLEAN : CallSync(withFileTypes)
  \/ CallAsync
  \/ \E d \in 0..Len(tree) : ReaddirDone(d)

Spec == Init /\ [][Next]_vars

\* ------------------------------------------------- walks on failing listings
\* The largest number of directories whose listing fails.
MaxFaults == 2

\* The ways the listings of tree t can fail: fs.readdir fails on at most
\* MaxFaults of its directories, the root included, each with one error code.
FaultAssignments(t) ==
  {f \in [0..Len(t) -> {"ok"} \cup ReaddirErrors] :
     /\ \A i \in 0..Len(t) : f[i] # "ok" => i \in DirIds(t)
     /\ Cardinality({i \in 0..Len(t) : f[i] # "ok"}) <= MaxFaults}

\* The options of the walks on failing listings: no filter but matchedRegExp.
FaultOptions ==
  {o \in Options : /\ ~o.isOnlyFile /\ ~o.isOnlyDir /\ ~o.excludesSymlink
                   /\ o.ignoredRegExp = NullPattern}

InitFault ==
  /\ tree \in Trees
  /\ targets = DanglingLinks(tree)
  /\ faults \in FaultAssignments(tree)
  /\ options \in FaultOptions
  /\ pc = "idle"
  /\ lastIndex = FreshLastIndex
  /\ calls = <<>>
  /\ tasks = [i \in 0..Len(tree) |-> NoTask]
  /\ outcome = Pending
  /\ UtilitiesIdle

SpecFault == InitFault /\ [][Next]_vars

\* ------------------------------------------------- walks across link cycles
\* What the links of tree t can point to: nothing, the walk root, or any
\* other entry, a directory above the link included.
LinkTargets(t) ==
  {f \in [1..Len(t) -> -1..Len(t)] :
     \A i \in 1..Len(t) : /\ f[i] # i
                           /\ t[i].type # "link" => f[i] = -1}

InitLive ==
  /\ tree \in Trees
  /\ targets \in LinkTargets(tree)
  /\ faults = [i \in 0..Len(tree) |-> "ok"]
  /\ options = DefaultOptions
  /\ pc = "idle"
  /\ lastIndex = FreshLastIndex
  /\ calls = <<>>
  /\ tasks = [i \in 0..Len(tree) |-> NoTask]
  /\ outcome = Pending
  /\ UtilitiesIdle

\* The fs.readdir of task d is pending.
Listing(d) == d \in DOMAIN tasks /\ tasks[d].st = "listing"

\* Every fs.readdir issued calls back in the end. A pending fs.readdir keeps
\* ReaddirDone enabled until it is taken, so this is weak fairness of
\* ReaddirDone(d), for every d.
SpecLive ==
  /\ InitLive /\ [][Next]_vars
  /\ \A d \in 0..MaxEntries : Listing(d) ~> ~Listing(d)

\* ------------------------------------- walks with a prefix from the caller
\* The options object is the caller's, and line 879 (1033) reads
\* _prefixDirName from it: the top-level call runs with the default '' or
\* with what the caller wrote there.
InitPrefix ==
  /\ tree \in Trees
  /\ targets = DanglingLinks(tree)
  /\ faults = [i \in 0..Len(tree) |-> "ok"]
  /\ options \in {[DefaultOptions EXCEPT !.prefixDirName = p] :
                    p \in {<<>>, <<"x">>}}
  /\ pc = "idle"
  /\ lastIndex = FreshLastIndex
  /\ calls = <<>>
  /\ tasks = [i \in 0..Len(tree) |-> NoTask]
  /\ outcome = Pending
  /\ UtilitiesIdle

SpecPrefix == InitPrefix /\ [][Next]_vars

\* ------------------------------------------------ walks on the test fixture
\* The entries createTestFiles makes below the test directory: the name of
\* the directory each lies in ("": the test directory itself), its base name
\* and its type. A name is a one-element sequence here.
Fixture ==
  {[dir |-> "", name |-> "FILE_ROOT1.TXT", type |-> "file"],
   [dir |-> "", name |-> "fileRoot2.log", type |-> "file"],
   [dir |-> "", name |-> "fileRoot2-Symlink.log", type |-> "link"],
   [dir |-> "", name |-> "DirFoo", type |-> "dir"],
   [dir |-> "", name |-> "DirFoo-Symlink", type |-> "link"],
   [dir |-> "", name |-> "DirBar", type |-> "dir"],
   [dir |-> "DirBar", name |-> "fileBar1.txt", type |-> "file"],
   [dir |-> "DirBar", name |-> "DirQuux", type |-> "dir"],
   [dir |-> "DirQuux", name |-> "fileQuux1.txt", type |-> "file"],
   [dir |-> "DirQuux", name |-> "fileQuux1-Symlink.txt", type |-> "link"]}

\* The entries of the fixture a tree t of some of them can be extended by,
\* the numbering being depth-first as in Extensions.
FixtureExtensions(t) ==
  UNION {{Entry(p, <<f.name>>, f.type) :
            p \in {q \in {0} \cup Lineage(t, Len(t)) :
                     IF q = 0 THEN f.dir = "" ELSE t[q].name = <<f.dir>>}} :
           f \in {g \in Fixture :
                    \A j \in 1..Len(t) : t[j].name # <<g.name>>}}

RECURSIVE FixtureTreesOfSize(_)
FixtureTreesOfSize(n) ==
  IF n = 0 THEN {<<>>}
  ELSE UNION {{Append(t, e) : e \in FixtureExtensions(t)} :
                t \in FixtureTreesOfSize(n - 1)}

\* The fixture, in every order fs.readdir may list its directories in.
FixtureTrees == FixtureTreesOfSize(Cardinality(Fixture))

\* The symbolic links createTestFiles makes and what each points to.
FixtureLinks ==
  [name \in {"fileRoot2-Symlink.log", "DirFoo-Symlink",
             "fileQuux1-Symlink.txt"} |->
     CASE name = "fileRoot2-Symlink.log" -> "fileRoot2.log"
       [] name = "DirFoo-Symlink" -> "DirFoo"
       [] name = "fileQuux1-Symlink.txt" -> "fileQuux1.txt"]

\* The targets of the links of fixture tree t.
FixtureTargets(t) ==
  [i \in 1..Len(t) |->
     IF t[i].type # "link" THEN -1
     ELSE CHOOSE j \in 1..Len(t) : t[j].name = <<FixtureLinks[t[i].name[1]]>>]

InitFixture ==
  /\ tree \in FixtureTrees
  /\ targets = FixtureTargets(tree)
  /\ faults = [i \in 0..Len(tree) |-> "ok"]
  /\ options \in {o \in Options : /\ o.matchedRegExp = NullPattern
                                   /\ o.ignoredRegExp = NullPattern
                                   /\ ~o.isOnlyFile /\ ~o.excludesSymlink}
  /\ pc = "idle"
  /\ lastIndex = FreshLastIndex
  /\ calls = <<>>
  /\ tasks = [i \in 0..Len(tree) |-> NoTask]
  /\ outcome = Pending
  /\ UtilitiesIdle

SpecFixture == InitFixture /\ [][Next]_vars

\* -------------------------------------------------------- links and writes
\* No walk is called: the walk's variables stay as they are.
WalkIdle ==
  /\ tree = <<>>
  /\ targets = DanglingLinks(tree)
  /\ faults = [i \in 0..Len(tree) |-> "ok"]
  /\ options = DefaultOptions
  /\ pc = "idle"
  /\ lastIndex = FreshLastIndex
  /\ calls = <<>>
  /\ tasks = [i \in 0..Len(tree) |-> NoTask]
  /\ outcome = Pending

\* The paths mklink and mklinkSync are called with, as existingPath and as
\* newPath.
LinkPaths == {EmptyPath, FilePath, DirPath, NewPath}

\* Lines 638-649 of mklinkSync and 576-600 of mklink, on win32 once both
\* arguments are known to be non-empty: what becomes of the call when
\* fs.stat has delivered statSrc.
AfterStat(d, privileged, statSrc, newPath) ==
  IF statSrc.err # NoError THEN [err |-> statSrc.err, disk |-> d]
  ELSE IF statSrc.type \notin {"file", "dir"}
    THEN [err |-> ArgError(newPath), disk |-> d]
  ELSE ExecMklink(d, privileged, newPath)

\* The check of the arguments, lines 564-570 and 627-633.
EmptyArgError(existingPath, newPath) ==
  IF existingPath = EmptyPath THEN ArgError("existingPath")
  ELSE IF newPath = EmptyPath THEN ArgError("newPath")
  ELSE NoError

\* mklinkSync(existingPath, newPath), lines 619-650: the error thrown if any,
\* and the disk it leaves.
mklinkSync(d, os, privileged, existingPath, newPath) ==
  IF os # "win32" THEN fsLink(d, existingPath, newPath)
  ELSE IF EmptyArgError(existingPath, newPath) # NoError
    THEN [err |-> EmptyArgError(existingPath, newPath), disk |-> d]
  ELSE AfterStat(d, privileged, fsStat(d, existingPath), newPath)

InitLink ==
  /\ WalkIdle
  /\ platform \in {"win32", "linux", "darwin"}
  /\ elevated \in BOOLEAN
  /\ disk = InitialDisk
  /\ strData = <<>>
  /\ writeOptions = NoWriteOptions
  /\ op = NoOp

\* mklinkSync(existingPath, newPath): the whole call.
MklinkSync(existingPath, newPath) ==
  /\ op.at = "none"
  /\ LET r == mklinkSync(disk, platform, elevated, existingPath, newPath)
     IN /\ disk' = r.disk
        /\ op' = Op("mklinkSync", <<existingPath, newPath>>, "done", r.err,
                    <<>>)
  /\ UNCHANGED <<walkVars, platform, elevated, strData, writeOptions>>

\* mklink(existingPath, newPath) up to the promise it returns: fs.link is
\* issued (line 557), or on win32 the call is rejected for an empty argument
\* or fs.stat is issued (line 576).
Mklink(existingPath, newPath) ==
  /\ op.at = "none"
  /\ op' = IF platform # "win32"
             THEN Op("mklink", <<existingPath, newPath>>, "link", NoError,
                     <<>>)
           ELSE IF EmptyArgError(existingPath, newPath) # NoError
             THEN Op("mklink", <<existingPath, newPath>>, "done",
                     EmptyArgError(existingPath, newPath), <<>>)
           ELSE Op("mklink", <<existingPath, newPath>>, "stat", NoError,
                   <<>>)
  /\ UNCHANGED <<walkVars, platform, elevated, disk, strData, writeOptions>>

\* The callback of fs.link, lines 557-560.
FsLinkDone ==
  /\ op.at = "link"
  /\ LET r == fsLink(disk, op.args[1], op.args[2])
     IN /\ disk' = r.disk
        /\ op' = [op EXCEPT !.at = "done", !.err = r.err]
  /\ UNCHANGED <<walkVars, platform, elevated, strData, writeOptions>>

\* The callback of fs.stat, lines 576-600: the promise is rejected, or the
\* command is started.
FsStatDone ==
  /\ op.at = "stat"
  /\ LET statSrc == fsStat(disk, op.args[1])
     IN op' = IF statSrc.err # NoError
                THEN [op EXCEPT !.at = "done", !.err = statSrc.err]
              ELSE IF statSrc.type \notin {"file", "dir"}
                THEN [op EXCEPT !.at = "done", !.err = ArgError(op.args[2])]
              ELSE [op EXCEPT !.at = "exec"]
  /\ UNCHANGED <<walkVars, platform, elevated, disk, strData, writeOptions>>

\* The callback of exec, lines 596-599.
ExecDone ==
  /\ op.at = "exec"
  /\ LET r == ExecMklink(disk, elevated, op.args[2])
     IN /\ disk' = r.disk
        /\ op' = [op EXCEPT !.at = "done", !.err = r.err]
  /\ UNCHANGED <<walkVars, platform, elevated, strData, writeOptions>>

NextLink ==
  \/ \E existingPath \in LinkPaths, newPath \in LinkPaths :
       MklinkSync(existingPath, newPath)
  \/ \E existingPath \in LinkPaths, newPath \in LinkPaths :
       Mklink(existingPath, newPath)
  \/ FsLinkDone
  \/ FsStatDone
  \/ ExecDone

SpecLink == InitLink /\ [][NextLink]_vars

\* The options writeAsText and writeAsTextSync are called with: a trim that
\* is left out ("") or names the side, an eol that is left out (<<>>) or
\* names the line ending, with or without a byte order mark.
WriteOptions ==
  [trim : {"", "all", "start", "end"},
   eol : {<<>>, <<"l", "f">>, <<"c", "r">>, <<"c", "r", "l", "f">>},
   bom : BOOLEAN]

\* The paths writeAsText and writeAsTextSync are called with.
DestPaths == {EmptyPath, NewPath, NePath, DirPath}

\* Lines 467-478 and 521-531: the buffer handed to fs.writeFile.
BufferToWrite(str, opts) == IconvEncode(prewriteAsText(str, opts), opts.bom)

InitWrite ==
  /\ WalkIdle
  /\ platform = "linux"
  /\ elevated = FALSE
  /\ disk = InitialDisk
  /\ strData \in Texts
  /\ writeOptions \in WriteOptions
  /\ op = NoOp

\* writeAsTextSync(destPath, strData, writeOptions): the whole call.
WriteAsTextSync(destPath) ==
  /\ op.at = "none"
  /\ LET r == IF destPath = EmptyPath
                THEN [err |-> ArgError("destPath"), disk |-> disk]
                ELSE fsWriteFile(disk, destPath,
                                 BufferToWrite(strData, writeOptions))
     IN /\ disk' = r.disk
        /\ op' = Op("writeAsTextSync", <<destPath>>, "done", r.err, <<>>)
  /\ UNCHANGED <<walkVars, platform, elevated, strData, writeOptions>>

\* writeAsText(destPath, strData, writeOptions) up to the promise it returns:
\* rejected for an empty destPath, or fs.writeFile is issued with the buffer.
WriteAsText(destPath) ==
  /\ op.at = "none"
  /\ op' = IF destPath = EmptyPath
             THEN Op("writeAsText", <<destPath>>, "done",
                     ArgError("destPath"), <<>>)
             ELSE Op("writeAsText",
                     <<destPath, BufferToWrite(strData, writeOptions)>>,
                     "write", NoError, <<>>)
  /\ UNCHANGED <<walkVars, platform, elevated, disk, strData, writeOptions>>

\* The callback of fs.writeFile, lines 479-485.
WriteFileDone ==
  /\ op.at = "write"
  /\ LET r == fsWriteFile(disk, op.args[1], op.args[2])
     IN /\ disk' = r.disk
        /\ op' = [op EXCEPT !.at = "done", !.err = r.err]
  /\ UNCHANGED <<walkVars, platform, elevated, strData, writeOptions>>

NextWrite ==
  \/ \E destPath \in DestPaths : WriteAsTextSync(destPath)
  \/ \E destPath \in DestPaths : WriteAsText(destPath)
  \/ WriteFileDone

SpecWrite == InitWrite /\ [][NextWrite]_vars

\* ------------------------------------------------ end-of-line conversions
\* The eol arguments convertEOL is called with: the names it knows in several
\* spellings, nothing, the line endings themselves, and other strings.
EolArgs ==
  {<<"l", "f">>, <<"L", "F">>, <<"u", "n", "i", "x">>,
   <<"c", "r">>, <<"C", "R">>, <<"M", "a", "c">>,
   <<"c", "r", "l", "f">>, <<"C", "R", "L", "F">>, <<"d", "o", "s">>,
   <<>>, <<LF>>, <<CR, LF>>, <<CR>>, <<"|">>, <<"$", "$">>, <<"$", "&">>}

InitText ==
  /\ WalkIdle
  /\ platform = "linux"
  /\ elevated = FALSE
  /\ strData \in Texts
  /\ disk = [InitialDisk EXCEPT ![FilePath] = Node("file", strData)]
  /\ writeOptions \in [trim : {""}, eol : EolArgs, bom : {FALSE}]
  /\ op = NoOp

\* convertEOL(strData, eol)
ConvertEOL ==
  /\ op.at = "none"
  /\ op' = Op("convertEOL", <<strData, writeOptions.eol>>, "done", NoError,
              convertEOL(strData, writeOptions.eol))
  /\ UNCHANGED <<walkVars, platform, elevated, disk, strData, writeOptions>>

\* detectTextEol on the buffer that holds what convertEOL returned.
DetectTextEol ==
  /\ op.name = "convertEOL"
  /\ LET r == detectTextEol(IconvEncode(op.ret, writeOptions.bom))
     IN op' = Op("detectTextEol", <<op.ret>>, "done", r.err, r.ret)
  /\ UNCHANGED <<walkVars, platform, elevated, disk, strData, writeOptions>>

\* detectTextEol(textData), textData being a path: '', the file that holds
\* strData, a directory, or a path to nothing.
DetectTextEolOfPath(textData) ==
  /\ op.at = "none"
  /\ LET b == textDataToBuf(disk, textData)
         r == detectTextEol(b.buf)
     IN op' = IF b.err # NoError
                THEN Op("detectTextEol of a path", <<textData>>, "done",
                        b.err, <<>>)
                ELSE Op("detectTextEol of a path", <<textData>>, "done",
                        r.err, r.ret)
  /\ UNCHANGED <<walkVars, platform, elevated, disk, strData, writeOptions>>

NextText ==
  \/ ConvertEOL
  \/ DetectTextEol
  \/ \E textData \in LinkPaths : DetectTextEolOfPath(textData)

SpecText == InitText /\ [][NextText]_vars

\* ------------------------------------------------------------ properties
Range(f) == {f[j] : j \in DOMAIN f}

\* The path of entry id relative to the walk root: the names from the root
\* down to the entry, joined by the separator.
RECURSIVE RelPathOf(_, _)
RelPathOf(t, id) ==
  IF t[id].parent = 0 THEN t[id].name
  ELSE RelPathOf(t, t[id].parent) \o <<Sep>> \o t[id].name

\* The descriptor the data model gives entry id.
InfoOf(t, id) ==
  [name |-> t[id].name, relPath |-> RelPathOf(t, id), path |-> AbsPath(t, id),
   isDirectory |-> t[id].type = "dir", isFile |-> t[id].type = "file",
   isSymbolicLink |-> t[id].type = "link"]

EntryIds == 1..Len(tree)
EntriesOfType(ty) == {i \in EntryIds : tree[i].type = ty}

\* relPath matches the pattern: a search over the whole of relPath, a string
\* being compiled case-insensitive.
Matches(pattern, relPath) ==
  LET re == CompileRE(pattern) IN RegExpTest(re, 0, relPath).ok

HasPattern(pattern) == pattern.kind # "null"

\* The admission predicates of the configuration o on a descriptor: what
\* decides, from the descriptor alone, whether it belongs to the output.
PassesFilters(o, info) ==
  /\ info.isDirectory => ~o.isOnlyFile
  /\ ~info.isDirectory => ~o.isOnlyDir
  /\ o.excludesSymlink => ~info.isSymbolicLink
  /\ HasPattern(o.matchedRegExp) => Matches(o.matchedRegExp, info.relPath)
  /\ HasPattern(o.ignoredRegExp) => ~Matches(o.ignoredRegExp, info.relPath)

\* The top-level call has returned a list.
Returned == outcome.status = "resolved"
AsyncReturned == pc = "async" /\ Returned
SyncReturned == pc = "sync" /\ Returned

\* The relative paths of the list returned.
ReturnedRelPaths ==
  IF outcome.withFileTypes THEN {f.relPath : f \in Range(outcome.value)}
  ELSE Range(outcome.value)

\* Every FileInfo the walks have built so far.
Descriptors ==
  (IF Returned /\ outcome.withFileTypes THEN Range(outcome.value) ELSE {})
    \cup UNION {Range(tasks[d].files) \cup Range(tasks[d].dirs)
                  \cup Range(tasks[d].dirsBranches) : d \in DOMAIN tasks}

\* What readdirRecursivelySync returns on the same tree with options o, the
\* caller's RegExp objects being fresh.
SyncRun(o, withFileTypes) ==
  readdirRecursivelySync(FileSystem, RootPath, FullOptions(o, withFileTypes),
                         FreshHeap)

\* C1: when the concurrent walk returns, its list is the list the sequential
\* walk returns, element by element, whatever order the listings arrived in.
C1_SameOrderedList ==
  AsyncReturned => outcome.value = SyncRun(options, outcome.withFileTypes).ret

\* C2: when the concurrent walk returns, it returns the same set of entries
\* as the sequential walk, whatever order the listings arrived in.
C2_SameSet ==
  AsyncReturned =>
    Range(outcome.value) = Range(SyncRun(options, outcome.withFileTypes).ret)

IsBelow(dirRelPath, relPath) ==
  /\ Len(relPath) > Len(dirRelPath) + 1
  /\ SubSeq(relPath, 1, Len(dirRelPath) + 1) = dirRelPath \o <<Sep>>

C5_NoPruning ==
  Returned =>
    /\ \A i \in EntriesOfType("dir") : AbsPath(tree, i) \in Range(calls)
    /\ \A i \in EntryIds :
         tree[i].parent # 0 =>
           (RelPathOf(tree, i) \in ReturnedRelPaths
              <=> PassesFilters(options, InfoOf(tree, i)))

\* C6: with isOnlyDir and no other filter a walk returns exactly the real
\* directories of the tree, each with isDirectory, and as many as there are
\* entries that are neither files nor symbolic links.
C6_OnlyDirectories ==
  Returned /\ options = OnlyDirOptions =>
    /\ ReturnedRelPaths = {RelPathOf(tree, i) : i \in EntriesOfType("dir")}
    /\ Len(outcome.value) =
         Len(tree) - Cardinality(EntriesOfType("file"))
                   - Cardinality(EntriesOfType("link"))
    /\ outcome.withFileTypes =>
         \A f \in Range(outcome.value) : f.isDirectory

\* C6 happens: the concurrent walk has returned, with isOnlyDir, from a tree
\* that holds a nested directory beside a file or a link.
C6_Witness ==
  /\ AsyncReturned /\ options = OnlyDirOptions
  /\ \E i \in EntriesOfType("dir") : tree[i].parent # 0
  /\ EntriesOfType("file") \cup EntriesOfType("link") # {}

\* C7: what a walk returns with isOnlyFile alone is disjoint from what the
\* walk with isOnlyDir alone returns, together they are what the unfiltered
\* walk returns, and the sizes subtract; it is every entry that is no real
\* directory, and nothing with isDirectory.
C7_OnlyFilesComplement ==
  Returned /\ options = OnlyFileOptions =>
    LET onlyDirs == SyncRun(OnlyDirOptions, FALSE).ret
        unfiltered == SyncRun(DefaultOptions, FALSE).ret
    IN /\ ReturnedRelPaths \cap Range(onlyDirs) = {}
       /\ ReturnedRelPaths \cup Range(onlyDirs) = Range(unfiltered)
       /\ Len(outcome.value) = Len(unfiltered) - Len(onlyDirs)
       /\ ReturnedRelPaths =
            {RelPathOf(tree, i) : i \in EntryIds \ EntriesOfType("dir")}
       /\ outcome.withFileTypes =>
            \A f \in Range(outcome.value) : ~f.isDirectory

\* C7 happens: a walk has returned, with isOnlyFile, from a tree that holds
\* a file, a link and a directory.
C7_Witness ==
  /\ Returned /\ options = OnlyFileOptions
  /\ EntriesOfType("file") # {} /\ EntriesOfType("link") # {}
  /\ EntriesOfType("dir") # {}

\* C8: with excludesSymlink, whatever the other options, no symbolic link is
\* returned and every other entry that passes the other predicates is.
C8_ExcludeSymlinks ==
  Returned /\ options.excludesSymlink =>
    /\ \A i \in EntriesOfType("link") :
         RelPathOf(tree, i) \notin ReturnedRelPaths
    /\ \A i \in EntryIds \ EntriesOfType("link") :
         PassesFilters(options, InfoOf(tree, i)) =>
           RelPathOf(tree, i) \in ReturnedRelPaths

\* C9: with matchedRegExp p alone the paths returned are exactly the paths of
\* the tree that match p; with ignoredRegExp p alone they are exactly those
\* that do not; a string p matches whatever the case.
C9_Patterns ==
  LET o == options
      all == {RelPathOf(tree, i) : i \in EntryIds}
  IN Returned /\ ~o.isOnlyFile /\ ~o.isOnlyDir /\ ~o.excludesSymlink =>
       /\ HasPattern(o.matchedRegExp) /\ ~HasPattern(o.ignoredRegExp) =>
            ReturnedRelPaths = {r \in all : Matches(o.matchedRegExp, r)}
       /\ HasPattern(o.ignoredRegExp) /\ ~HasPattern(o.matchedRegExp) =>
            ReturnedRelPaths = {r \in all : ~Matches(o.ignoredRegExp, r)}

\* C10: a walk given an invalid pattern source fails with the pattern's
\* SyntaxError and without a directory listed, the root included: no listing
\* is ever issued, no list is ever returned, and the sequential call throws
\* the SyntaxError.
C10_InvalidPatternBeforeIO ==
  pc # "idle" /\ ParseOptionsError(FullOptions(options, FALSE)) # NoError =>
    /\ calls = <<>>
    /\ outcome.status # "resolved"
    /\ pc = "sync" =>
         outcome = Rejected(ParseOptionsError(FullOptions(options, FALSE)))

\* The directories whose listing has failed: fs.readdirSync threw on them, or
\* their fs.readdir has called back with its error.
FailedListings ==
  {d \in DirIds(tree) :
     /\ faults[d] # "ok"
     /\ AbsPath(tree, d) \in Range(calls)
     /\ pc = "sync" \/ tasks[d].st = "rejected"}

\* The error the listing of directory d fails with.
ListingError(d) == [kind |-> faults[d], arg |-> AbsPath(tree, d)]

\* C11: once the listing of a directory has failed, at whatever depth, the
\* top-level walk has failed with the error of a failed listing as it was
\* raised and with no list; a walk that returns a list has met no failing
\* directory; and no directory is listed twice.
C11_ListingErrorPropagates ==
  /\ FailedListings # {} =>
       /\ outcome.status = "rejected"
       /\ outcome.error \in {ListingError(d) : d \in FailedListings}
       /\ outcome.value = <<>>
  /\ Returned => \A d \in DirIds(tree) : faults[d] = "ok"
  /\ \A i, j \in 1..Len(calls) : calls[i] = calls[j] => i = j

\* C11 happens: the concurrent walk has failed with the error of a directory
\* two levels below the root, after a sibling branch was listed.
C11_Witness ==
  /\ pc = "async" /\ outcome.status = "rejected"
  /\ \E d \in FailedListings :
       /\ d # 0 /\ tree[d].parent # 0
       /\ outcome.error = ListingError(d)
  /\ \E d \in DirIds(tree) : tasks[d].st = "resolved"

\* C12: in the concurrent walk the first listing to fail settles the call
\* with its error, an outcome once delivered never changes whatever the other
\* tasks produce or fail with later, and a turn of the event loop ends one
\* pending listing at most: no sibling in flight is cancelled.
C12_FirstFailureWins ==
  [][/\ outcome.status = "rejected" => outcome' = outcome
     /\ pc = "async" /\ FailedListings = {} /\ FailedListings' # {} =>
          /\ Cardinality(FailedListings') = 1
          /\ \E d \in FailedListings' : outcome' = Rejected(ListingError(d))
     /\ Cardinality({c \in DOMAIN tasks :
                       tasks[c].st = "listing" /\ tasks'[c].st # "listing"})
          <= 1]_vars

\* C12 happens: two sibling listings of the concurrent walk have failed with
\* different error codes, and the call stands rejected with one of the two.
C12_Witness ==
  /\ pc = "async" /\ outcome.status = "rejected"
  /\ Cardinality(FailedListings) = 2
  /\ \A c, d \in FailedListings :
       tree[c].parent = tree[d].parent /\ (c # d => faults[c] # faults[d])
  /\ \E d \in FailedListings : outcome.error = ListingError(d)

\* C13: the list the sequential walk returns without withFileTypes is,
\* element by element, the relPath of the list it returns with withFileTypes
\* on the same tree with the same options, and the call made returned the
\* one or the other.
C13_PathsAreProjection ==
  SyncReturned =>
    LET infos == SyncRun(options, TRUE).ret
        paths == SyncRun(options, FALSE).ret
    IN /\ Len(paths) = Len(infos)
       /\ \A j \in 1..Len(infos) : paths[j] = infos[j].relPath
       /\ outcome.value = IF outcome.withFileTypes THEN infos ELSE paths

\* C13 happens: the sequential walk has returned relative paths, one of an
\* entry below a subdirectory, under a filter.
C13_Witness ==
  /\ SyncReturned /\ ~outcome.withFileTypes
  /\ options # DefaultOptions
  /\ \E r \in Range(outcome.value) : Len(r) > 1

\* The relPath of the ten FileInfo createTestFiles expects.
FixtureRelPaths ==
  {<<"DirFoo-Symlink">>, <<"FILE_ROOT1.TXT">>, <<"fileRoot2-Symlink.log">>,
   <<"fileRoot2.log">>, <<"DirBar">>, <<"DirFoo">>,
   <<"DirBar", Sep, "fileBar1.txt">>, <<"DirBar", Sep, "DirQuux">>,
   <<"DirBar", Sep, "DirQuux", Sep, "fileQuux1-Symlink.txt">>,
   <<"DirBar", Sep, "DirQuux", Sep, "fileQuux1.txt">>}

\* C14: on the fixture a walk with the default options returns exactly the
\* ten relative paths, DirFoo-Symlink and fileRoot2-Symlink.log among them
\* and nothing listed through them; with isOnlyDir it returns exactly the
\* three directories DirBar, DirFoo and DirBar/DirQuux.
C14_Fixture ==
  /\ Returned /\ options = DefaultOptions =>
       /\ Len(outcome.value) = 10
       /\ ReturnedRelPaths = FixtureRelPaths
       /\ Len(calls) = 4
       /\ \A j \in 1..Len(calls) :
            calls[j] \notin {PathResolve(RootPath, <<"DirFoo-Symlink">>),
                             PathResolve(RootPath, <<"fileRoot2-Symlink.log">>)}
  /\ Returned /\ options = OnlyDirOptions =>
       /\ Len(outcome.value) = 3
       /\ ReturnedRelPaths =
            {<<"DirBar">>, <<"DirFoo">>, <<"DirBar", Sep, "DirQuux">>}
       /\ outcome.withFileTypes =>
            \A f \in Range(outcome.value) :
              f.isDirectory /\ ~f.isFile /\ ~f.isSymbolicLink

\* C14 happens: the concurrent walk has returned the descriptors of the
\* fixture's directories, DirFoo listed ahead of DirBar.
C14_Witness ==
  /\ AsyncReturned /\ options = OnlyDirOptions /\ outcome.withFileTypes
  /\ Len(outcome.value) = 3 /\ outcome.value[1].name = <<"DirFoo">>

\* The work a walk has left: the call itself, and for every entry a listing
\* not yet issued (counted twice) or issued and pending (counted once).
Remaining ==
  (IF pc = "idle" THEN 1 ELSE 0)
  + 2 * Cardinality({d \in DOMAIN tasks : tasks[d].st = "none"})
  + Cardinality({d \in DOMAIN tasks : Listing(d)})

\* C15: on every tree, links to a directory above them included, a walk
\* returns in the end, whichever the mode, its listings all calling back:
\* the sequential walk has returned when its call ends, the concurrent walk
\* not yet returned always has a listing pending, and every step of a walk
\* leaves it less work than before.
C15_Terminates ==
  /\ [](pc = "sync" => Returned)
  /\ [](pc = "async" /\ ~Returned => \E d \in DOMAIN tasks : Listing(d))
  /\ [][Remaining' < Remaining]_vars

\* C15 happens: the concurrent walk has returned from a tree where a link in
\* a subdirectory points to a directory above it, after listing below the
\* root.
C15_Witness ==
  /\ AsyncReturned /\ Len(calls) > 1
  /\ \E i \in EntriesOfType("link") :
       /\ tree[i].parent # 0
       /\ targets[i] \in {0} \cup Lineage(tree, tree[i].parent)

\* The calls that make a link, and the calls that write a text.
LinkCalls == {"mklinkSync", "mklink"}
WriteCalls == {"writeAsTextSync", "writeAsText"}

\* C16: once mklinkSync or mklink has succeeded on an existing file or
\* directory, a no-follow stat of newPath reports a symbolic link, whatever
\* the platform; and a call with an empty existingPath or newPath fails and
\* leaves the disk as it was.
C16_MklinkMakesSymlink ==
  op.name \in LinkCalls /\ op.at = "done" =>
    /\ op.err = NoError /\ op.args[1] \in {FilePath, DirPath} =>
         disk[op.args[2]].type = "symlink"
    /\ EmptyPath \in {op.args[1], op.args[2]} =>
         op.err # NoError /\ disk = InitialDisk

\* C17: writeAsText and writeAsTextSync called on a destPath whose parent
\* directories do not exist succeed, the directories are there afterwards and
\* the file holds the text; called on an empty destPath they fail and leave
\* the disk as it was.
C17_AutoMkdir ==
  op.name \in WriteCalls /\ op.at = "done" =>
    /\ op.args[1] # EmptyPath /\ ~InDirectory(InitialDisk, op.args[1]) =>
         /\ op.err = NoError
         /\ InDirectory(disk, op.args[1])
         /\ disk[op.args[1]] = Node("file", BufferToWrite(strData, writeOptions))
    /\ op.args[1] = EmptyPath => op.err # NoError /\ disk = InitialDisk

\* The three end-of-line names detectTextEol returns.
EolStyles == {<<"l", "f">>, <<"c", "r">>, <<"c", "r", "l", "f">>}

\* Whether text s holds a line break.
HasLineBreak(s) == \E i \in 1..Len(s) : s[i] \in {CR, LF}

\* C18: for a text with at least one line break and e one of lf, cr, crlf,
\* detectTextEol on what convertEOL(s, e) returns is e.
C18_DetectsConvertedEol ==
  /\ op.name = "detectTextEol"
  /\ HasLineBreak(strData)
  /\ writeOptions.eol \in EolStyles
  => op.err = NoError /\ op.ret = writeOptions.eol

\* C19: with a trim of all, start or end and an eol of lf, cr or crlf, the
\* text writeAsText and writeAsTextSync write is the text converted, then
\* trimmed.
C19_TrimAndConvertCommute ==
  /\ op.name \in WriteCalls /\ op.at = "done" /\ op.err = NoError
  /\ writeOptions.trim \in {"all", "start", "end"}
  /\ writeOptions.eol \in EolStyles
  => IconvDecode(disk[op.args[1]].data)
       = trimAllLines(convertEOL(strData, writeOptions.eol),
                      writeOptions.trim)

\* The characters of text s that are no line terminator, in order, and the
\* number of end-of-line sequences of s: every LF, alone or after a CR, and
\* every CR that no LF follows.
NonEol(s) == SelectSeq(s, LAMBDA c : c \notin {CR, LF})
EolCount(s) ==
  Cardinality({i \in 1..Len(s) :
                 \/ s[i] = LF
                 \/ s[i] = CR /\ (i = Len(s) \/ s[i + 1] # LF)})

\* Every line terminator of text s is part of a copy of the end-of-line
\* sequence target.
OnlyEol(s, target) ==
  \A i \in 1..Len(s) :
    /\ s[i] = CR =>
         \/ target = <<CR>>
         \/ target = <<CR, LF>> /\ i < Len(s) /\ s[i + 1] = LF
    /\ s[i] = LF =>
         \/ target = <<LF>>
         \/ target = <<CR, LF>> /\ i > 1 /\ s[i - 1] = CR

\* C20: convertEOL(s, e) puts the target in the place of every end-of-line
\* sequence of s, CRLF for crlf and dos, LF for lf and unix, CR for cr and
\* mac in any case, and e itself otherwise; the other characters stay, and
\* the result holds no end-of-line sequence but the target.
C20_ConvertEOL ==
  op.name = "convertEOL" =>
    LET e == writeOptions.eol
        target ==
          IF TestIgnoringCase({<<"c", "r", "l", "f">>, <<"d", "o", "s">>}, e)
            THEN <<CR, LF>>
          ELSE IF TestIgnoringCase({<<"l", "f">>, <<"u", "n", "i", "x">>}, e)
            THEN <<LF>>
          ELSE IF TestIgnoringCase({<<"c", "r">>, <<"m", "a", "c">>}, e)
            THEN <<CR>>
          ELSE e
    IN /\ Len(op.ret) = Len(NonEol(strData)) + EolCount(strData) * Len(target)
       /\ NonEol(target) = <<>> => NonEol(op.ret) = NonEol(strData)
       /\ OnlyEol(op.ret, target)

\* The end-of-line name of text: crlf with a CR LF pair anywhere, else cr
\* with a CR, else lf with an LF, else the empty string.
EolOf(text) ==
  IF \E i \in 1..(Len(text) - 1) : text[i] = CR /\ text[i + 1] = LF
    THEN <<"c", "r", "l", "f">>
  ELSE IF \E i \in 1..Len(text) : text[i] = CR THEN <<"c", "r">>
  ELSE IF \E i \in 1..Len(text) : text[i] = LF THEN <<"l", "f">>
  ELSE <<>>

\* C21: detectTextEol returns crlf for a text with a CR LF pair, else cr for
\* one with a CR, else lf for one with an LF, else the empty string; called
\* on a path to nothing or on what decodes to the empty text it throws.
C21_DetectTextEol ==
  /\ op.name = "detectTextEol" =>
       IF op.args[1] = <<>> THEN op.err # NoError
       ELSE op.err = NoError /\ op.ret = EolOf(op.args[1])
  /\ op.name = "detectTextEol of a path" =>
       IF ~Exists(disk, op.args[1]) \/ (op.args[1] = FilePath /\ strData = <<>>)
         THEN op.err # NoError
       ELSE op.args[1] = FilePath =>
              op.err = NoError /\ op.ret = EolOf(strData)

\* C21 happens: detectTextEol has returned crlf for the file of a text that
\* holds a CR before its CR LF pair.
C21_Witness ==
  /\ op.name = "detectTextEol of a path" /\ op.args[1] = FilePath
  /\ strData = <<CR, CR, LF>> /\ op.ret = <<"c", "r", "l", "f">>

\* The relative paths of the list returned, in its order.
ReturnedSeq ==
  IF outcome.withFileTypes
    THEN [j \in 1..Len(outcome.value) |-> outcome.value[j].relPath]
    ELSE outcome.value

\* The entry returned at position j.
EntryAt(j) == CHOOSE i \in EntryIds : RelPathOf(tree, i) = ReturnedSeq[j]

IsContainer(i) == tree[i].type = "dir"

\* The order of the sequential walk on entries x and y: a directory is ahead
\* of what lies below it; of two entries that part ways at siblings a and b,
\* the one through a is ahead when a is a leaf and b a leaf listed later or
\* a directory, or when both are directories and a is listed first.
DepthFirstBefore(x, y) ==
  \/ IsContainer(x) /\ x # y /\ x \in Lineage(tree, y)
  \/ \E a \in Lineage(tree, x), b \in Lineage(tree, y) :
       /\ a # b /\ tree[a].parent = tree[b].parent
       /\ IF IsContainer(a) THEN IsContainer(b) /\ a < b
          ELSE IsContainer(b) \/ a < b

\* C22: the list the sequential walk returns holds, level by level, the
\* leaves in listing order, then each directory in listing order followed by
\* its own result: leaves are ahead of every directory and nested entry of
\* their level, and a directory is ahead of all that lies below it.
C22_SequentialOrder ==
  SyncReturned =>
    \A j, k \in 1..Len(outcome.value) :
      DepthFirstBefore(EntryAt(j), EntryAt(k)) => j < k

\* C22 happens: the sequential walk has returned a leaf ahead of a directory
\* that was listed before it, and the directory ahead of an entry below it.
C22_Witness ==
  /\ SyncReturned /\ Len(outcome.value) = 3
  /\ ~IsContainer(EntryAt(1)) /\ IsContainer(EntryAt(2))
  /\ EntryAt(2) < EntryAt(1)
  /\ tree[EntryAt(1)].parent = 0 /\ tree[EntryAt(3)].parent = EntryAt(2)

\* C23: the relative path of every descriptor is the names from the walk
\* root down to the entry joined by the separator, the prefix of the root's
\* entries being empty whatever the caller's options hold.
C23_RelativePathFromRoot ==
  \A f \in Descriptors :
    \E i \in EntryIds : /\ AbsPath(tree, i) = f.path
                         /\ f.relPath = RelPathOf(tree, i)

\* The directories a walk can reach: the root and every real directory that
\* has none but real directories above it.
ReachableDirs ==
  {0} \cup {i \in EntryIds : \A a \in Lineage(tree, i) : IsContainer(a)}

\* C24: a walk that returns has listed the root and every real directory it
\* can reach exactly once each and nothing else, whatever the filters.
C24_OneListingPerDirectory ==
  Returned =>
    /\ Range(calls) = {AbsPath(tree, i) : i \in ReachableDirs}
    /\ \A j, k \in 1..Len(calls) : calls[j] = calls[k] => j = k

\* C24 happens: a concurrent walk whose filter rejects every directory has
\* returned after three listings.
C24_Witness ==
  AsyncReturned /\ options.isOnlyFile /\ Len(calls) = 3

\* The tasks started for the directories of the level task d has listed.
ChildTasks(d) ==
  {IdOfPath(tree, tasks[d].dirs[j].path) : j \in 1..Len(tasks[d].dirs)}

Running(d) == tasks[d].st \in {"listing", "awaiting"}

\* C25: in the concurrent walk a call that awaits its subdirectories, or has
\* done so, has started a task for every directory of its level; a call does
\* not return while a task of its level is running, and the top-level call
\* has not returned while any task is running.
C25_AllStartedThenAwaited ==
  pc = "async" =>
    /\ \A d \in DOMAIN tasks :
         /\ tasks[d].st \in {"awaiting", "resolved"} =>
              \A c \in ChildTasks(d) :
                tasks[c].st # "none" /\ tasks[c].parent = d
         /\ tasks[d].st = "resolved" =>
              \A c \in ChildTasks(d) : tasks[c].st = "resolved"
    /\ Returned => \A d \in DOMAIN tasks : ~Running(d)

\* C25 happens: the top-level call awaits two subdirectories, one of which
\* has returned while the listing of the other is pending.
C25_Witness ==
  /\ pc = "async" /\ outcome.status = "pending" /\ tasks[0].st = "awaiting"
  /\ \E c, e \in ChildTasks(0) :
       tasks[c].st = "resolved" /\ tasks[e].st = "listing"

\* The positions of the list returned that hold directory i or an entry
\* below it.
BranchPositions(i) ==
  {j \in 1..Len(outcome.value) : i \in Lineage(tree, EntryAt(j))}

\* C26: in the list the concurrent walk returns, whatever order the listings
\* arrived in, what comes from one directory lies in one run with no entry
\* of another branch in between, the directory's own descriptor, if there,
\* at the head of the run.
C26_BranchesContiguous ==
  AsyncReturned =>
    \A i \in EntryIds :
      IsContainer(i) =>
        \A j, k \in BranchPositions(i) :
          /\ \A m \in j..k : m \in BranchPositions(i)
          /\ EntryAt(k) = i => k <= j

\* C26 happens: the concurrent walk has returned the branch of a directory
\* with an entry below it after a directory that was listed later.
C26_Witness ==
  /\ AsyncReturned /\ Len(outcome.value) = 3
  /\ IsContainer(EntryAt(1)) /\ IsContainer(EntryAt(2))
  /\ EntryAt(2) < EntryAt(1)
  /\ tree[EntryAt(3)].parent = EntryAt(2)

\* C27: whether an entry is returned depends on its own descriptor and the
\* options alone, not on the tests made before it nor on the order the
\* listings arrived in, and the caller's RegExp objects are left as they
\* were.
C27_AdmissionStateless ==
  /\ lastIndex = FreshLastIndex
  /\ Returned =>
       ReturnedRelPaths =
         {RelPathOf(tree, i) :
            i \in {e \in EntryIds : PassesFilters(options, InfoOf(tree, e))}}

\* C28: with the default options a walk, sequential or concurrent and
\* whatever order the listings arrived in, returns one element for every
\* entry below the root that real directories lead to, and nothing else: no
\* entry is missing and none comes twice.
C28_EachEntryOnce ==
  Returned /\ options = DefaultOptions =>
    /\ Len(outcome.value) = Len(tree)
    /\ \A i \in EntryIds :
         \E j \in 1..Len(outcome.value) :
           /\ ReturnedSeq[j] = RelPathOf(tree, i)
           /\ outcome.withFileTypes =>
                outcome.value[j].path = AbsPath(tree, i)

\* C28 happens: a concurrent walk of a tree with a nested entry and a link
\* that leads to a directory has returned as many elements as the tree has
\* entries.
C28_Witness ==
  /\ AsyncReturned /\ Len(outcome.value) = MaxEntries
  /\ \E i, l \in EntryIds :
       tree[i].parent # 0 /\ tree[l].type = "link" /\ targets[l] = 0

\* The absolute paths of the directories task d found in its listing.
DirPathsOf(task) == [j \in 1..Len(task.dirs) |-> task.dirs[j].path]

\* C29: in the sequential walk the listing that fails is the last one made:
\* no sibling after it and no subtree is read, and the call has thrown. In
\* the concurrent walk a task whose listing arrives after the call has
\* failed goes on all the same and issues the listing of every directory it
\* has found.
C29_ListingsAfterFailure ==
  /\ [](pc = "sync" =>
          \A j \in 1..Len(calls) :
            faults[IdOfPath(tree, calls[j])] # "ok" =>
              j = Len(calls) /\ outcome.status = "rejected")
  /\ [][pc = "async" /\ outcome.status = "rejected" =>
          \A d \in DOMAIN tasks :
            tasks[d].st = "listing" /\ tasks'[d].st \in {"awaiting", "resolved"}
              => calls' = calls \o DirPathsOf(tasks'[d])]_vars

\* C29 happens: the concurrent walk has failed on one directory of the root
\* while the listing of a sibling is pending, a sibling that holds a
\* directory whose listing is yet to be issued.
C29_Witness ==
  /\ pc = "async" /\ outcome.status = "rejected"
  /\ \E d \in FailedListings, b, c \in DirIds(tree) :
       /\ d # 0 /\ b # 0 /\ b # d /\ tree[d].parent = tree[b].parent
       /\ tasks[b].st = "listing" /\ faults[b] = "ok"
       /\ c # 0 /\ tree[c].parent = b /\ tasks[c].st = "none"

====
